---- MODULE Spec2Model ----
(***************************************************************************)
(* A model of the purpleair client library: the retained read/write keys,  *)
(* key validation (CheckAPIKey / SetAPIKey), the request helper doRequest  *)
(* and the group, membership and sensor-data operations built on it.       *)
(*                                                                         *)
(* The library is single-threaded and synchronous: an operation runs to   *)
(* completion as one atomic action, invoked when no call is outstanding    *)
(* (op = "idle"); Return is the caller taking the result before its next   *)
(* call.  The remote service is the environment: the reply to a request is *)
(* drawn nondeterministically from the replies the HTTP collaborator can   *)
(* produce (transport failure, any status, any body).  The variables op,   *)
(* arg, params, reply, ret, sent, oldReadKey and oldWriteKey hold the      *)
(* outstanding invocation as its caller and the service observe it.        *)
(***************************************************************************)
EXTENDS Integers, Sequences, FiniteSets, TLC

VARIABLES
    apiReadKey,     \* retained read key ("" when none)
    apiWriteKey,    \* retained write key ("" when none)
    op,             \* name of the operation that just ran ("idle" between calls)
    arg,            \* the key passed to CheckAPIKey / SetAPIKey ("" otherwise)
    params,         \* the SensorParams passed to a data operation
    reply,          \* the remote service's reply to the request, if one was sent
    ret,            \* what the operation returned: [kt, id, err]
    sent,           \* the requests the invocation issued, in order
    oldReadKey,     \* apiReadKey when the operation was invoked
    oldWriteKey,    \* apiWriteKey when the operation was invoked
    readSet,        \* <<k>>: the key of the last SetAPIKey that returned READ; <<>> if none
    writeSet        \* <<k>>: the key of the last SetAPIKey that returned WRITE; <<>> if none

\* The parameter handling of one data operation, statement by statement
VARIABLES
    vOp,            \* the data operation whose parameter handling runs ("" when none)
    vParams,        \* the SensorParams it was given
    vPc,            \* "off", "validate", "encode" or "done"
    vOrder,         \* the keys the current range loop has visited, in order
    vFields,        \* requiredField of the bulk calls
    vQuery,         \* q, the url.Values built so far
    vRuns           \* the outcomes of the finished runs on vParams

\* The transcoding of one decoded bulk response, row by row
VARIABLES
    sensorsResp,    \* the decoded response: [Fields, Locs, States, Flags, Data]
    tPc,            \* "off", "rows", "returned" or "panicked"
    tNext,          \* position in Data of the row the range loop takes next
    tData,          \* data, the SensorDataSet built so far
    tRet            \* what the call returned: [isNil, data, err]

\* The remote service's groups, as a sequence of group calls changes them
VARIABLES
    groups,         \* the members of each group the service holds
    oldGroups,      \* groups when the outstanding call was invoked
    gArg            \* the group id the outstanding call was given (0 if none)

\* A decoder or parameter helper applied to one input
VARIABLES
    cFn,            \* the function applied ("" when none)
    cIn,            \* its input
    cOut            \* its result (<<>> until it has run)

\* SetAPIKey's store to apiReadKey racing with doRequest's loads of it; a
\* Go string variable is two words, a data pointer and a length
VARIABLES
    memPtr,         \* the data word of apiReadKey: the key it points to
    memLen,         \* the length word of apiReadKey
    wPc,            \* SetAPIKey's position
    rPc,            \* doRequest's position
    chkLen,         \* the length doRequest loaded for its check
    ldPtr,          \* the data word doRequest loaded for the header
    ldLen,          \* the length word doRequest loaded for the header
    raceOld,        \* the read key retained before the race
    raceNew         \* the key SetAPIKey stores

libvars == <<apiReadKey, apiWriteKey, op, arg, params, reply, ret, sent,
             oldReadKey, oldWriteKey, readSet, writeSet>>
pvars == <<vOp, vParams, vPc, vOrder, vFields, vQuery, vRuns>>
tvars == <<sensorsResp, tPc, tNext, tData, tRet>>
svars == <<groups, oldGroups, gArg>>
cvars == <<cFn, cIn, cOut>>
rvars == <<memPtr, memLen, wPc, rPc, chkLen, ldPtr, ldLen, raceOld, raceNew>>
vars == <<libvars, pvars, tvars, svars, cvars, rvars>>

---------------------------------------------------------------------------
(* Bounds of the model *)

MaxKeys == 2        \* distinct non-empty key strings a caller passes
MaxGroupID == 1     \* group ids 1..MaxGroupID, member ids and sensor indices alike
MaxParams == 2      \* largest SensorParams map passed to a data operation
MaxFields == 2      \* longest field-name list of a bulk response
MaxList == 2        \* longest list handed to an AddParam helper
MaxRows == 2        \* most rows in the data matrix of a bulk response

---------------------------------------------------------------------------
(* Constants of the program *)

KeyUnknown == "UNKNOWN"
KeyRead == "READ"
KeyWrite == "WRITE"
KeyReadDisabled == "READ_DISABLED"
KeyWriteDisabled == "WRITE_DISABLED"

MethodGet == "GET"
MethodPost == "POST"
MethodDelete == "DELETE"

StatusOK == 200
StatusCreated == 201
StatusNoContent == 204

contentTypeJSON == "application/json"

paramFields == "fields"
paramLocation == "location_type"
paramReadKey == "read_key"
paramReadKeys == "read_keys"
paramShowOnly == "show_only"
paramModTime == "modified_since"
paramMaxAge == "max_age"
paramNWLong == "nwlng"
paramNWLat == "nwlat"
paramSELong == "selng"
paramSELat == "selat"

LocOutside == 0
LocInside == 1

---------------------------------------------------------------------------
(* Errors: Go's nil error, or an error value carrying a message.  An error *)
(* with an empty message (errors.New("")) is not nil.                      *)

Nil == [isNil |-> TRUE, msg |-> ""]
Err(m) == [isNil |-> FALSE, msg |-> m]

ErrTransport == Err("transport failure")
ErrDecode == Err("json: cannot decode body")

---------------------------------------------------------------------------
(* Inputs *)

KeyStr(i) == "k" \o ToString(i)
Keys == {""} \cup {KeyStr(i) : i \in 1..MaxKeys}

GroupIDs == 1..MaxGroupID
MemberIDs == 1..MaxGroupID
SensorIndexes == 1..MaxGroupID
SensorIDs == {"id" \o ToString(i) : i \in 1..MaxGroupID}
GroupNames == {"g"}

\* PrivateInfo values; <<>> stands for the omitted variadic argument
PrivateInfos == {<<>>} \cup
    {<<[Email |-> e, Loc |-> l]>> : e \in {"", "a@b.c"}, l \in {LocOutside, LocInside}}

ParamKeys == {paramFields, paramLocation, paramReadKey, paramReadKeys,
              paramShowOnly, paramModTime, paramMaxAge,
              paramNWLong, paramNWLat, paramSELong, paramSELat, "bogus"}
ParamSets == {sp \in SUBSET ParamKeys : Cardinality(sp) <= MaxParams}

\* The values of a SensorParams map (map[string]interface{}) are Go values
\* of any dynamic type; val is the value as %v prints it.
GoString(s) == [type |-> "string", val |-> s]
GoInt(i) == [type |-> "int", val |-> ToString(i)]
GoFloat(i) == [type |-> "float64", val |-> ToString(i)]
GoValues == {GoString("a"), GoInt(1), GoFloat(2)}

KnownParams == ParamKeys \ {"bogus"}

\* the type of the value each AddParam helper stores under its key
ParamType(k) ==
    CASE k \in {paramFields, paramReadKey, paramReadKeys, paramShowOnly} -> "string"
      [] k \in {paramLocation, paramModTime, paramMaxAge} -> "int"
      [] k \in {paramNWLong, paramNWLat, paramSELong, paramSELat} -> "float64"

\* a caller fills the map through the helpers or directly: every key is
\* offered with a value of its type and with one of another type
OfferedTypes(k) ==
    IF k \notin KnownParams THEN {"string"}
    ELSE {ParamType(k), IF ParamType(k) = "string" THEN "int" ELSE "string"}

ParamMaps ==
    {sp \in UNION {[ks -> GoValues] : ks \in ParamSets} :
        \A k \in DOMAIN sp : sp[k].type \in OfferedTypes(k)}

---------------------------------------------------------------------------
(* Replies of the remote service, as the HTTP collaborator hands them over *)

\* the api_key_type values a 201 body can carry: the five documented ones,
\* the zero value of an absent field, and a string the library does not know
WireKeyTypes == {KeyUnknown, KeyRead, KeyWrite, KeyReadDisabled, KeyWriteDisabled,
                 "", "OTHER"}

Body(d, kt, e, desc, id) ==
    [decodable |-> d, api_key_type |-> kt, error |-> e, description |-> desc, id |-> id]

Undecodable == Body(FALSE, "", "", "", 0)
KeyBodies == {Body(TRUE, kt, "", "", 0) : kt \in WireKeyTypes}
ErrorBodies == {Body(TRUE, "", e, d, 0) :
                    e \in {"", "ApiKeyInvalidError"}, d \in {"", "bad key"}}
IdBodies == {Body(TRUE, "", "", "", i) : i \in 0..MaxGroupID}

Statuses == {StatusOK, StatusCreated, StatusNoContent, 403}

TransportFailure == [fail |-> TRUE, status |-> 0, body |-> Undecodable]
NoReply == [fail |-> FALSE, status |-> 0, body |-> Undecodable]
Replies(bodies) ==
    {TransportFailure} \cup
    {[fail |-> FALSE, status |-> s, body |-> b] : s \in Statuses, b \in bodies}

KeyReplies == Replies({Undecodable} \cup KeyBodies \cup ErrorBodies)
OpReplies == Replies({Undecodable} \cup IdBodies \cup ErrorBodies)

---------------------------------------------------------------------------
(* Requests *)

NoBody == [kind |-> "none"]
NoQuery == << >>      \* a URL without query parameters
NoParams == << >>     \* an empty SensorParams map

Request(m, u, q, k, ct, b) ==
    [method |-> m, url |-> u, query |-> q, key |-> k, contentType |-> ct, body |-> b]

---------------------------------------------------------------------------
(* Helpers of the request layer *)

\* extractError reporting no error when the payload carries no error code
extractErrorNilOnEmpty(r) ==
    IF ~r.body.decodable THEN ErrDecode
    ELSE IF r.body.error = "" THEN Nil
    ELSE IF r.body.description # ""
         THEN Err(r.body.error \o ": " \o r.body.description)
         ELSE Err(r.body.error)

\* extractError / paError: the error built from a non-success reply
extractError(r) ==
    IF ~r.body.decodable THEN ErrDecode
    ELSE IF r.body.description # ""
         THEN Err(r.body.error \o ": " \o r.body.description)
         ELSE Err(r.body.error)

\* c.Do(req): one round trip; a transport failure yields an error and no response
Do(req, r) ==
    [sent |-> <<req>>, err |-> IF r.fail THEN ErrTransport ELSE Nil, reply |-> r]

NotSent(e) == [sent |-> <<>>, err |-> e, reply |-> NoReply]

\* doRequest with the key slots swapped
doRequestSwapped(m, u, q, b, r) ==
    IF m = MethodGet
    THEN IF Len(apiWriteKey) = 0
         THEN NotSent(Err("PurpleAir key not set [read]"))
         ELSE Do(Request(m, u, q, apiWriteKey, contentTypeJSON, b), r)
    ELSE IF Len(apiReadKey) = 0
         THEN NotSent(Err("PurpleAir key not set [write]"))
         ELSE Do(Request(m, u, q, apiReadKey, contentTypeJSON, b), r)

\* doRequest re-issuing the request after a transport failure
doRequestRetry(m, u, q, b, r) ==
    LET k == IF m = MethodGet THEN apiReadKey ELSE apiWriteKey
        req == Request(m, u, q, k, contentTypeJSON, b)
    IN  IF Len(k) = 0
        THEN NotSent(Err("PurpleAir key not set"))
        ELSE [sent |-> IF r.fail THEN <<req, req>> ELSE <<req>>,
              err |-> IF r.fail THEN ErrTransport ELSE Nil, reply |-> r]

\* doRequest: attach the content type and the key the method calls for, then
\* perform the request; without the key, fail before any request is made
doRequest(m, u, q, b, r) ==
    IF m = MethodGet
    THEN IF Len(apiReadKey) = 0
         THEN NotSent(Err("PurpleAir key not set [read]"))
         ELSE Do(Request(m, u, q, apiReadKey, contentTypeJSON, b), r)
    ELSE IF m \in {MethodPost, MethodDelete}
    THEN IF Len(apiWriteKey) = 0
         THEN NotSent(Err("PurpleAir key not set [write]"))
         ELSE Do(Request(m, u, q, apiWriteKey, contentTypeJSON, b), r)
    ELSE NotSent(Err("Unexpected request method [" \o m \o "]"))

\* What every invocation leaves behind for its caller and the service to see
Record(o, k, sp, res) ==
    /\ op = "idle"
    /\ op' = o
    /\ arg' = k
    /\ params' = sp
    /\ reply' = res.reply
    /\ ret' = [kt |-> res.kt, id |-> res.id, err |-> res.err]
    /\ sent' = res.sent
    /\ oldReadKey' = apiReadKey
    /\ oldWriteKey' = apiWriteKey

Observe(o, k, sp, res) ==
    /\ Record(o, k, sp, res)
    /\ UNCHANGED <<pvars, tvars, svars, cvars, rvars>>

Result(d, kt, id, e) ==
    [sent |-> d.sent, reply |-> d.reply, kt |-> kt, id |-> id, err |-> e]

---------------------------------------------------------------------------
(* Key management *)

\* CheckAPIKey taking 200, not 201, for the success status
CheckAPIKeyResultExpects200(k, r) ==
    LET d == Do(Request(MethodGet, <<"keys">>, NoQuery, k, "", NoBody), r)
    IN  IF ~d.err.isNil THEN Result(d, KeyUnknown, 0, d.err)
        ELSE IF r.status # StatusOK THEN Result(d, KeyUnknown, 0, extractError(r))
        ELSE IF ~r.body.decodable THEN Result(d, KeyUnknown, 0, ErrDecode)
        ELSE Result(d, r.body.api_key_type, 0, Nil)

\* CheckAPIKey: one GET to the keys path carrying k; 201 and a decodable
\* body give the body's api_key_type, everything else KeyUnknown and an error
CheckAPIKeyResult(k, r) ==
    LET d == Do(Request(MethodGet, <<"keys">>, NoQuery, k, "", NoBody), r)
    IN  IF ~d.err.isNil THEN Result(d, KeyUnknown, 0, d.err)
        ELSE IF r.status # StatusCreated THEN Result(d, KeyUnknown, 0, extractError(r))
        ELSE IF ~r.body.decodable THEN Result(d, KeyUnknown, 0, ErrDecode)
        ELSE Result(d, r.body.api_key_type, 0, Nil)

\* CheckAPIKey retaining the key it validated
CheckAPIKeyRetains(k, r) ==
    LET c == CheckAPIKeyResult(k, r)
    IN  /\ Observe("CheckAPIKey", k, NoParams, c)
        /\ apiReadKey' = IF c.kt = KeyRead THEN k ELSE apiReadKey
        /\ apiWriteKey' = IF c.kt = KeyWrite THEN k ELSE apiWriteKey
        /\ UNCHANGED <<readSet, writeSet>>

CheckAPIKey(k, r) ==
    /\ Observe("CheckAPIKey", k, NoParams, CheckAPIKeyResult(k, r))
    /\ UNCHANGED <<apiReadKey, apiWriteKey, readSet, writeSet>>

\* SetAPIKey's switch with the two slots exchanged
SetAPIKeySlotsCrossed(k, kt) ==
    IF kt = KeyRead THEN <<apiReadKey, k>>
    ELSE IF kt = KeyWrite THEN <<k, apiWriteKey>>
    ELSE <<apiReadKey, apiWriteKey>>

\* SetAPIKey storing the key whatever its classification
SetAPIKeySlotsAlways(k, kt) ==
    IF kt = KeyWrite THEN <<apiReadKey, k>> ELSE <<k, apiWriteKey>>

\* SetAPIKey retaining disabled keys like enabled ones
SetAPIKeySlotsDisabled(k, kt) ==
    IF kt \in {KeyRead, KeyReadDisabled} THEN <<k, apiWriteKey>>
    ELSE IF kt \in {KeyWrite, KeyWriteDisabled} THEN <<apiReadKey, k>>
    ELSE <<apiReadKey, apiWriteKey>>

\* SetAPIKey's switch on the classification: the new <<read, write>> slots
SetAPIKeySlots(k, kt) ==
    IF kt = KeyRead THEN <<k, apiWriteKey>>
    ELSE IF kt = KeyWrite THEN <<apiReadKey, k>>
    ELSE <<apiReadKey, apiWriteKey>>

\* SetAPIKey handing back the classification next to the error
SetAPIKeyResultLeaky(k, r) ==
    LET c == CheckAPIKeyResult(k, r)
    IN  IF ~c.err.isNil THEN [c EXCEPT !.kt = r.body.api_key_type] ELSE c

\* SetAPIKey's return values: KeyUnknown and CheckAPIKey's error, or the
\* classification and nil
SetAPIKeyResult(k, r) ==
    LET c == CheckAPIKeyResult(k, r)
    IN  IF ~c.err.isNil THEN [c EXCEPT !.kt = KeyUnknown] ELSE c

SetAPIKey(k, r) ==
    LET c == CheckAPIKeyResult(k, r)
        res == SetAPIKeyResult(k, r)
        slots == IF ~c.err.isNil THEN <<apiReadKey, apiWriteKey>>
                 ELSE SetAPIKeySlots(k, c.kt)
    IN  /\ Observe("SetAPIKey", k, NoParams, res)
        /\ apiReadKey' = slots[1]
        /\ apiWriteKey' = slots[2]
        /\ readSet' = IF res.err.isNil /\ res.kt = KeyRead THEN <<k>> ELSE readSet
        /\ writeSet' = IF res.err.isNil /\ res.kt = KeyWrite THEN <<k>> ELSE writeSet

---------------------------------------------------------------------------
(* Groups and members *)

\* the decoded outcome shared by the operations that return an id
IdResult(d, r, want) ==
    IF r.status # want THEN Result(d, "", 0, extractError(r))
    ELSE IF ~r.body.decodable THEN Result(d, "", 0, ErrDecode)
    ELSE Result(d, "", r.body.id, Nil)

\* the outcome shared by the operations that return only an error
\* (for the list operations the decoded list itself is left abstract)
PlainResult(d, r, want, decodes) ==
    IF ~d.err.isNil THEN Result(d, "", 0, d.err)
    ELSE IF r.status # want THEN Result(d, "", 0, extractError(r))
    ELSE IF decodes /\ ~r.body.decodable THEN Result(d, "", 0, ErrDecode)
    ELSE Result(d, "", 0, Nil)

\* CreateGroup: a failed doRequest is answered with (0, nil)
CreateGroupResult(g, r) ==
    LET d == doRequest(MethodPost, <<"groups">>, NoQuery, [kind |-> "group", name |-> g], r)
    IN  IF ~d.err.isNil THEN Result(d, "", 0, Nil)
        ELSE IdResult(d, r, StatusCreated)

CreateGroup(g, r) ==
    /\ Observe("CreateGroup", "", NoParams, CreateGroupResult(g, r))
    /\ UNCHANGED <<apiReadKey, apiWriteKey, readSet, writeSet>>

\* DeleteGroup taking any answer of the service for success
DeleteGroupResultAnyStatus(g, r) ==
    LET d == doRequest(MethodDelete, <<"groups", g>>, NoQuery, NoBody, r)
    IN  IF ~d.err.isNil THEN Result(d, "", 0, d.err) ELSE Result(d, "", 0, Nil)

DeleteGroupResult(g, r) ==
    PlainResult(doRequest(MethodDelete, <<"groups", g>>, NoQuery, NoBody, r),
                r, StatusNoContent, FALSE)

DeleteGroup(g, r) ==
    /\ Observe("DeleteGroup", "", NoParams, DeleteGroupResult(g, r))
    /\ UNCHANGED <<apiReadKey, apiWriteKey, readSet, writeSet>>

ListGroupsResult(r) ==
    PlainResult(doRequest(MethodGet, <<"groups">>, NoQuery, NoBody, r), r, StatusOK, TRUE)

ListGroups(r) ==
    /\ Observe("ListGroups", "", NoParams, ListGroupsResult(r))
    /\ UNCHANGED <<apiReadKey, apiWriteKey, readSet, writeSet>>

ListGroupMembersResult(g, r) ==
    PlainResult(doRequest(MethodGet, <<"groups", g>>, NoQuery, NoBody, r), r, StatusOK, TRUE)

ListGroupMembers(g, r) ==
    /\ Observe("ListGroupMembers", "", NoParams, ListGroupMembersResult(g, r))
    /\ UNCHANGED <<apiReadKey, apiWriteKey, readSet, writeSet>>

\* json.Marshal of AddMember's params: owner_email and location_type are
\* omitempty, so "" and 0 leave the field out of the body
MarshalMember(index, id, pi) ==
    LET E == IF pi # <<>> THEN pi[1].Email ELSE ""
        L == IF pi # <<>> THEN pi[1].Loc ELSE 0
    IN  [kind |-> "member", sensor_index |-> index, sensor_id |-> id,
         owner_email |-> IF E = "" THEN <<>> ELSE <<E>>,
         location_type |-> IF L = 0 THEN <<>> ELSE <<L>>]

addMember(g, data, r) ==
    LET d == doRequest(MethodPost, <<"groups", g, "members">>, NoQuery, data, r)
    IN  IF ~d.err.isNil THEN Result(d, "", 0, d.err)
        ELSE IdResult(d, r, StatusCreated)

\* SensorIndex.AddMember
AddMemberByIndex(s, g, pi, r) ==
    /\ Observe("AddMember", "", NoParams, addMember(g, MarshalMember(<<s>>, <<>>, pi), r))
    /\ UNCHANGED <<apiReadKey, apiWriteKey, readSet, writeSet>>

\* SensorID.AddMember
AddMemberByID(s, g, pi, r) ==
    /\ Observe("AddMember", "", NoParams, addMember(g, MarshalMember(<<>>, <<s>>, pi), r))
    /\ UNCHANGED <<apiReadKey, apiWriteKey, readSet, writeSet>>

RemoveMemberResult(m, g, r) ==
    PlainResult(doRequest(MethodDelete, <<"groups", g, "members", m>>, NoQuery, NoBody, r),
                r, StatusNoContent, FALSE)

RemoveMember(m, g, r) ==
    /\ Observe("RemoveMember", "", NoParams, RemoveMemberResult(m, g, r))
    /\ UNCHANGED <<apiReadKey, apiWriteKey, readSet, writeSet>>

---------------------------------------------------------------------------
(* The remote service's groups.  The service is not part of the library;   *)
(* it is modelled as the spec describes it: it holds groups and their      *)
(* members, answers 201 with the new id to a create or an add, 204 to a     *)
(* delete, refuses to delete a group that has members, and may refuse any   *)
(* request (a key it does not accept, a quota).  A transport failure may    *)
(* strike before the request reaches the service or after it was served.    *)

\* the replies of a service that refuses a request
ServiceErrors ==
    {r \in OpReplies : /\ ~r.fail
                       /\ r.status \notin {StatusOK, StatusCreated, StatusNoContent}
                       /\ r.body \in ErrorBodies
                       /\ r.body.error # ""}

ServiceCreated(id) ==
    [fail |-> FALSE, status |-> StatusCreated, body |-> Body(TRUE, "", "", "", id)]
ServiceDeleted == [fail |-> FALSE, status |-> StatusNoContent, body |-> Undecodable]

ServiceOutcome(r, gs) == [reply |-> r, groups |-> gs]

\* the group's member set replaced
WithGroup(gs, g, ms) == [x \in DOMAIN gs \cup {g} |-> IF x = g THEN ms ELSE gs[x]]
WithoutGroup(gs, g) == [x \in DOMAIN gs \ {g} |-> gs[x]]

\* the ways the service carries out request req on the groups gs
Served(req, gs) ==
    CASE req.method = MethodPost /\ Len(req.url) = 1 ->
            {ServiceOutcome(ServiceCreated(g), WithGroup(gs, g, {})) :
                 g \in GroupIDs \ DOMAIN gs}
      [] req.method = MethodPost /\ Len(req.url) = 3 ->
            IF req.url[2] \notin DOMAIN gs THEN {}
            ELSE {ServiceOutcome(ServiceCreated(m),
                                 WithGroup(gs, req.url[2], gs[req.url[2]] \cup {m})) :
                      m \in MemberIDs \ gs[req.url[2]]}
      [] req.method = MethodDelete /\ Len(req.url) = 4 ->
            IF req.url[2] \in DOMAIN gs /\ req.url[4] \in gs[req.url[2]]
            THEN {ServiceOutcome(ServiceDeleted,
                                 WithGroup(gs, req.url[2], gs[req.url[2]] \ {req.url[4]}))}
            ELSE {}
      [] req.method = MethodDelete /\ Len(req.url) = 2 ->
            IF req.url[2] \in DOMAIN gs /\ gs[req.url[2]] = {}
            THEN {ServiceOutcome(ServiceDeleted, WithoutGroup(gs, req.url[2]))}
            ELSE {}
      [] OTHER -> {}

\* every outcome of a call that issued the requests reqs: nothing to serve,
\* served, refused, or lost in transport before or after being served
Outcomes(reqs, gs) ==
    IF reqs = <<>> THEN {ServiceOutcome(NoReply, gs)}
    ELSE Served(reqs[1], gs)
         \cup {ServiceOutcome(e, gs) : e \in ServiceErrors}
         \cup {ServiceOutcome(TransportFailure, gs)}
         \cup {ServiceOutcome(TransportFailure, o.groups) : o \in Served(reqs[1], gs)}

---------------------------------------------------------------------------
(* Sensor data *)

ErrUnexpected(k) == Err("Unexpected sensor param encountered [" \o k \o "]")
ErrRequired == Err("Required sensor param not found [" \o paramFields \o "]")

\* the parameter loop of a bulk call without its check for "fields"
CheckParamsFieldsOptional(sp, allowed, fieldsRequired) ==
    IF sp \ allowed # {} THEN {ErrUnexpected(k) : k \in sp \ allowed}
    ELSE {Nil}

\* The parameter loop of a data operation.  Go visits the keys of a map in
\* no fixed order and the loop returns at the first key outside the
\* allow-list, so any such key can be the one the error names.
CheckParams(sp, allowed, fieldsRequired) ==
    IF sp \ allowed # {} THEN {ErrUnexpected(k) : k \in sp \ allowed}
    ELSE IF fieldsRequired /\ paramFields \notin sp THEN {ErrRequired}
    ELSE {Nil}

\* MemberData letting the read-key override through as SensorData does
SingleAllowedWithReadKey == {paramFields, paramReadKey}

SingleAllowed == {paramFields}
SensorAllowed == {paramFields, paramReadKey}
BulkAllowed == {paramFields, paramLocation, paramReadKeys, paramShowOnly,
                paramModTime, paramMaxAge,
                paramNWLong, paramNWLat, paramSELong, paramSELat}

\* fmt.Sprintf(verb, v) for the verbs %s, %d and %f: a value of the verb's
\* type is printed, any other comes out as %!verb(type=value)
Sprintf(verb, v) ==
    LET want == CASE verb = "%s" -> "string" [] verb = "%d" -> "int"
                  [] verb = "%f" -> "float64"
        letter == CASE verb = "%s" -> "s" [] verb = "%d" -> "d" [] verb = "%f" -> "f"
    IN  IF v.type = want
        THEN IF verb = "%f" THEN v.val \o ".000000" ELSE v.val
        ELSE "%!" \o letter \o "(" \o v.type \o "=" \o v.val \o ")"

\* the verb addSensorParams formats the value of each key with
Verb(k) ==
    CASE k \in {paramFields, paramReadKeys, paramShowOnly} -> "%s"
      [] k \in {paramLocation, paramModTime, paramMaxAge} -> "%d"
      [] k \in {paramNWLong, paramNWLat, paramSELong, paramSELat} -> "%f"

\* q.Add(k, fmt.Sprintf(verb, v)): the value is formatted whatever its type
FormatParam(k, v) == Sprintf(Verb(k), v)

Rejected(e) == Result(NotSent(e), "", 0, e)

\* the keys as sort.Strings orders them
SortedKeys == <<"bogus", "fields", "location_type", "max_age", "modified_since",
                "nwlat", "nwlng", "read_key", "read_keys", "selat", "selng",
                "show_only">>

(* paSensor and paSensors, which the data operations hand the URL and the  *)
(* parameters to, are not among the sources at hand.  They are taken from   *)
(* the specification:                                                       *)
(*   4.2  each key has one accepted value type; a value of another type is  *)
(*        a validation error naming the key and the offending type; the     *)
(*        builder's output is a query string, the same for the same set;    *)
(*   4.5  SensorData requires a retained read key unless a read-key         *)
(*        override is supplied;                                             *)
(*   6    one GET, the retained read key in the authorization header, 200   *)
(*        expected;                                                         *)
(*   7    a validation error is raised before any network call.             *)

\* the validation error of a value of type t under the key k
ErrWrongType(k, t) == Err("Unexpected type for sensor param [" \o k \o "]: " \o t)

\* the keys of sp whose value is not of the key's type, in key order
IllTyped(sp) ==
    LET Ill(k) == k \in DOMAIN sp /\ k \in KnownParams /\ sp[k].type # ParamType(k)
    IN  SelectSeq(SortedKeys, Ill)

\* the type validation of the builder
CheckTypes(sp) ==
    IF IllTyped(sp) = <<>> THEN Nil
    ELSE ErrWrongType(IllTyped(sp)[1], sp[IllTyped(sp)[1]].type)

\* the query-string value of a parameter of its key's type
QueryParam(k, v) == IF k = paramReadKey THEN v.val ELSE FormatParam(k, v)

BuildQuery(sp) == [k \in DOMAIN sp |-> QueryParam(k, sp[k])]

\* paSensors formatting whatever value it finds, as addSensorParams does
paSensorsCoercing(u, sp, r) ==
    PlainResult(doRequest(MethodGet, u, [k \in DOMAIN sp |-> FormatParam(k, sp[k])],
                          NoBody, r), r, StatusOK, TRUE)

\* paSensor asking for the retained read key whatever the parameters
paSensorKeyRequired(u, sp, r) ==
    IF ~CheckTypes(sp).isNil THEN Rejected(CheckTypes(sp))
    ELSE PlainResult(doRequest(MethodGet, u, BuildQuery(sp), NoBody, r), r, StatusOK, TRUE)

\* one GET for one sensor; a read-key override waives the retained key: the
\* request goes out with the header as the read slot has it and the
\* override among the query parameters
paSensor(u, sp, r) ==
    IF ~CheckTypes(sp).isNil THEN Rejected(CheckTypes(sp))
    ELSE IF paramReadKey \in DOMAIN sp
    THEN PlainResult(Do(Request(MethodGet, u, BuildQuery(sp), apiReadKey,
                                contentTypeJSON, NoBody), r), r, StatusOK, TRUE)
    ELSE PlainResult(doRequest(MethodGet, u, BuildQuery(sp), NoBody, r), r, StatusOK, TRUE)

\* one GET for many sensors
paSensors(u, sp, r) ==
    IF ~CheckTypes(sp).isNil THEN Rejected(CheckTypes(sp))
    ELSE PlainResult(doRequest(MethodGet, u, BuildQuery(sp), NoBody, r), r, StatusOK, TRUE)

\* SensorsData issuing its request before it looks at the parameters
SensorsDataResultLate(sp, e, r) ==
    IF ~e.isNil
    THEN Result(doRequest(MethodGet, <<"sensors">>, NoQuery, NoBody, r), "", 0, e)
    ELSE paSensors(<<"sensors">>, sp, r)

\* The data operations: e is the outcome of the parameter loop
SensorDataResult(s, sp, e, r) ==
    IF ~e.isNil THEN Rejected(e) ELSE paSensor(<<"sensors", s>>, sp, r)

MemberDataResult(g, m, sp, e, r) ==
    IF ~e.isNil THEN Rejected(e) ELSE paSensor(<<"groups", g, "members", m>>, sp, r)

SensorsDataResult(sp, e, r) ==
    IF ~e.isNil THEN Rejected(e) ELSE paSensors(<<"sensors">>, sp, r)

MembersDataResult(g, sp, e, r) ==
    IF ~e.isNil THEN Rejected(e) ELSE paSensors(<<"groups", g, "members">>, sp, r)

SensorData(s, sp, e, r) ==
    /\ e \in CheckParams(DOMAIN sp, SensorAllowed, FALSE)
    /\ Observe("SensorData", "", sp, SensorDataResult(s, sp, e, r))
    /\ UNCHANGED <<apiReadKey, apiWriteKey, readSet, writeSet>>

MemberData(g, m, sp, e, r) ==
    /\ e \in CheckParams(DOMAIN sp, SingleAllowed, FALSE)
    /\ Observe("MemberData", "", sp, MemberDataResult(g, m, sp, e, r))
    /\ UNCHANGED <<apiReadKey, apiWriteKey, readSet, writeSet>>

SensorsData(sp, e, r) ==
    /\ e \in CheckParams(DOMAIN sp, BulkAllowed, TRUE)
    /\ Observe("SensorsData", "", sp, SensorsDataResult(sp, e, r))
    /\ UNCHANGED <<apiReadKey, apiWriteKey, readSet, writeSet>>

MembersData(g, sp, e, r) ==
    /\ e \in CheckParams(DOMAIN sp, BulkAllowed, TRUE)
    /\ Observe("MembersData", "", sp, MembersDataResult(g, sp, e, r))
    /\ UNCHANGED <<apiReadKey, apiWriteKey, readSet, writeSet>>

---------------------------------------------------------------------------
(* The bulk response transcoder: the loop of sensorsInfo that turns the     *)
(* decoded response (field names, lookup tables, rows of raw values) into   *)
(* a SensorDataSet keyed by sensor index.  Decoded JSON numbers are Go      *)
(* float64 values.  A failed type assertion and an index out of range are   *)
(* run-time panics: the call does not return.                               *)

FieldNames == {"sensor_index", "location_type", "channel_state", "channel_flags", "name"}
FieldLists == UNION {[1..n -> FieldNames] : n \in 0..MaxFields}

\* the lookup tables of a response; a table the response omits decodes to
\* an empty slice
LocLabels == <<"outside", "inside">>
StateLabels == <<"No PM", "PM-A">>
FlagLabels == <<"Normal", "A-Downgraded">>

\* the location table absent, one label short, or whole
LocTables == {<<>>, <<LocLabels[1]>>, LocLabels}

\* the raw values of a row: the numbers 0 and 1
RawCodes == {LocOutside, LocInside}
RawValues == {GoFloat(c) : c \in RawCodes}
Matrices(n) == UNION {[1..m -> [1..n -> RawValues]] : m \in 0..MaxRows}

\* a decoded response; its rows are aligned to the field-name list
Response(f, l, s, g, d) ==
    [Fields |-> f, Locs |-> l, States |-> s, Flags |-> g, Data |-> d]

NoResponse == [Fields |-> <<>>, Locs |-> <<>>, States |-> <<>>, Flags |-> <<>>,
               Data |-> <<>>]
NoGroups == << >>     \* a service that holds no group
NoData == << >>       \* make(SensorDataSet)
NoRow == << >>        \* make(SensorDataRow)
NoDataResult == [isNil |-> TRUE, data |-> NoData, err |-> Nil]

ErrNoSensorIndex == Err("Required element not found [sensor_index]")

\* int(v.(float64)) of a decoded number
Code(v) == CHOOSE c \in RawCodes : ToString(c) = v.val

\* the first label of the table, whatever the code
lookupFirst(table, v) ==
    IF v.type # "float64" THEN [panic |-> TRUE, val |-> v]
    ELSE IF Code(v) >= Len(table) THEN [panic |-> TRUE, val |-> v]
    ELSE [panic |-> FALSE, val |-> GoString(table[1])]

\* table[int(v.(float64))]: the type assertion or the index may panic
lookup(table, v) ==
    IF v.type # "float64" THEN [panic |-> TRUE, val |-> v]
    ELSE IF Code(v) >= Len(table) THEN [panic |-> TRUE, val |-> v]
    ELSE [panic |-> FALSE, val |-> GoString(table[Code(v) + 1])]

\* the value the switch on the field name stores
transcode(resp, k, v) ==
    CASE k = "location_type" -> lookup(resp.Locs, v)
      [] k = "channel_states" -> lookup(resp.States, v)
      [] k = "channel_flags" -> lookup(resp.Flags, v)
      [] OTHER -> [panic |-> FALSE, val |-> v]

\* row[k] = v
setField(row, k, v) == [x \in DOMAIN row \cup {k} |-> IF x = k THEN v ELSE row[x]]

\* an entry already stored under the index is kept
setEntryKeepFirst(set, si, row) ==
    [x \in DOMAIN set \cup {si} |-> IF x \in DOMAIN set THEN set[x] ELSE row]

\* data[si] = row
setEntry(set, si, row) ==
    [x \in DOMAIN set \cup {si} |-> IF x = si THEN row ELSE set[x]]

\* the inner loop over the positions j of row r, from position j on
RECURSIVE rowLoop(_, _, _, _)
rowLoop(resp, r, j, row) ==
    IF j > Len(r) THEN [panic |-> FALSE, row |-> row]
    ELSE IF j > Len(resp.Fields) THEN [panic |-> TRUE, row |-> row]
    ELSE LET k == resp.Fields[j]
             t == transcode(resp, k, r[j])
         IN  IF t.panic THEN [panic |-> TRUE, row |-> row]
             ELSE rowLoop(resp, r, j + 1, setField(row, k, t.val))

SensorDataRow(resp, r) == rowLoop(resp, r, 1, NoRow)

---------------------------------------------------------------------------
(* The library as a state machine *)

KeyOps == {"CheckAPIKey", "SetAPIKey"}
WriteOps == {"CreateGroup", "DeleteGroup", "AddMember", "RemoveMember"}
ReadOps == {"ListGroups", "ListGroupMembers",
            "SensorData", "MemberData", "SensorsData", "MembersData"}

DataOps == {"SensorData", "MemberData", "SensorsData", "MembersData"}
BulkOps == {"SensorsData", "MembersData"}

NoResult == [kt |-> "", id |-> 0, err |-> Nil]

\* no parameter handling is being followed
ParamIdle ==
    /\ vOp = ""
    /\ vParams = NoParams
    /\ vPc = "off"
    /\ vOrder = <<>>
    /\ vFields = FALSE
    /\ vQuery = NoQuery
    /\ vRuns = <<>>

\* no bulk response is being transcoded
TranscodeIdle ==
    /\ sensorsResp = NoResponse
    /\ tPc = "off"
    /\ tNext = 0
    /\ tData = NoData
    /\ tRet = NoDataResult

\* no sequence of group calls is being followed
ServiceIdle ==
    /\ groups = NoGroups
    /\ oldGroups = NoGroups
    /\ gArg = 0

\* no decoder or helper is being applied
CodecIdle ==
    /\ cFn = ""
    /\ cIn = <<>>
    /\ cOut = <<>>

\* no race is being followed
RaceIdle ==
    /\ memPtr = ""
    /\ memLen = 0
    /\ wPc = "off"
    /\ rPc = "off"
    /\ chkLen = 0
    /\ ldPtr = ""
    /\ ldLen = 0
    /\ raceOld = ""
    /\ raceNew = ""

\* nothing but the library's calls is being followed
OthersIdle ==
    /\ ServiceIdle
    /\ CodecIdle
    /\ RaceIdle

LibInit ==
    /\ apiReadKey = ""
    /\ apiWriteKey = ""
    /\ op = "idle"
    /\ arg = ""
    /\ params = NoParams
    /\ reply = NoReply
    /\ ret = NoResult
    /\ sent = <<>>
    /\ oldReadKey = ""
    /\ oldWriteKey = ""
    /\ readSet = <<>>
    /\ writeSet = <<>>

Init ==
    /\ LibInit
    /\ ParamIdle
    /\ TranscodeIdle
    /\ OthersIdle

\* the caller takes the result; the retained keys stay as the call left them
Return ==
    /\ op # "idle"
    /\ op' = "idle"
    /\ arg' = ""
    /\ params' = NoParams
    /\ reply' = NoReply
    /\ ret' = NoResult
    /\ sent' = <<>>
    /\ oldReadKey' = apiReadKey
    /\ oldWriteKey' = apiWriteKey
    /\ UNCHANGED <<apiReadKey, apiWriteKey, readSet, writeSet>>
    /\ UNCHANGED <<pvars, tvars, svars, cvars, rvars>>

\* The caller invokes an operation with any arguments while no call is
\* outstanding, and the service answers anything.
\* A data operation whose parameter loop fails returns before any request:
\* the service has nothing to answer.
Answers(e) == IF e.isNil THEN OpReplies ELSE {NoReply}

CallCheckAPIKey ==
    op = "idle" /\ \E k \in Keys, r \in KeyReplies : CheckAPIKey(k, r)

CallSetAPIKey ==
    op = "idle" /\ \E k \in Keys, r \in KeyReplies : SetAPIKey(k, r)

CallCreateGroup ==
    op = "idle" /\ \E g \in GroupNames, r \in OpReplies : CreateGroup(g, r)

CallDeleteGroup ==
    op = "idle" /\ \E g \in GroupIDs, r \in OpReplies : DeleteGroup(g, r)

CallListGroups ==
    op = "idle" /\ \E r \in OpReplies : ListGroups(r)

CallListGroupMembers ==
    op = "idle" /\ \E g \in GroupIDs, r \in OpReplies : ListGroupMembers(g, r)

CallAddMemberByIndex ==
    op = "idle" /\
    \E s \in SensorIndexes, g \in GroupIDs, pi \in PrivateInfos, r \in OpReplies :
        AddMemberByIndex(s, g, pi, r)

CallAddMemberByID ==
    op = "idle" /\
    \E s \in SensorIDs, g \in GroupIDs, pi \in PrivateInfos, r \in OpReplies :
        AddMemberByID(s, g, pi, r)

CallRemoveMember ==
    op = "idle" /\ \E m \in MemberIDs, g \in GroupIDs, r \in OpReplies : RemoveMember(m, g, r)

CallSensorData ==
    op = "idle" /\
    \E s \in SensorIndexes, sp \in ParamMaps :
        \E e \in CheckParams(DOMAIN sp, SensorAllowed, FALSE) :
            \E r \in Answers(e) : SensorData(s, sp, e, r)

CallMemberData ==
    op = "idle" /\
    \E g \in GroupIDs, m \in MemberIDs, sp \in ParamMaps :
        \E e \in CheckParams(DOMAIN sp, SingleAllowed, FALSE) :
            \E r \in Answers(e) : MemberData(g, m, sp, e, r)

CallSensorsData ==
    op = "idle" /\
    \E sp \in ParamMaps :
        \E e \in CheckParams(DOMAIN sp, BulkAllowed, TRUE) :
            \E r \in Answers(e) : SensorsData(sp, e, r)

CallMembersData ==
    op = "idle" /\
    \E g \in GroupIDs, sp \in ParamMaps :
        \E e \in CheckParams(DOMAIN sp, BulkAllowed, TRUE) :
            \E r \in Answers(e) : MembersData(g, sp, e, r)

Next ==
    \/ Return
    \/ CallCheckAPIKey
    \/ CallSetAPIKey
    \/ CallCreateGroup
    \/ CallDeleteGroup
    \/ CallListGroups
    \/ CallListGroupMembers
    \/ CallAddMemberByIndex
    \/ CallAddMemberByID
    \/ CallRemoveMember
    \/ CallSensorData
    \/ CallMemberData
    \/ CallSensorsData
    \/ CallMembersData

Spec == Init /\ [][Next]_vars

---------------------------------------------------------------------------
(* The parameter handling of a data operation, statement by statement: the  *)
(* range loop of the operation over the SensorParams map, which validates   *)
(* the keys, then the builder of paSensor / paSensors.  The builder is not  *)
(* among the sources at hand and follows the specification (4.2): it        *)
(* validates the types, adds every parameter of the set to the query, one   *)
(* key at a time, and encodes the query with its pairs sorted by key, as    *)
(* q.Encode() does.  addSensorParams, an older builder that no function     *)
(* calls, is not what these steps follow: it formats a value of any type,   *)
(* has no case for read_key and asks for fields itself.  Go visits the keys *)
(* of a map in an order that changes from one loop to the next, so each     *)
(* loop step takes any key not visited yet.  The same operation is run      *)
(* twice on the same map.                                                   *)

Allowed(o) ==
    CASE o = "SensorData" -> SensorAllowed
      [] o = "MemberData" -> SingleAllowed
      [] o \in BulkOps -> BulkAllowed

\* the query with its pairs left in the order the loop added them
EncodeInVisitOrder(q, order) ==
    LET n == Cardinality(DOMAIN q)
        ks == SubSeq(order, Len(order) - n + 1, Len(order))
    IN  [i \in 1..Len(ks) |-> <<ks[i], q[ks[i]]>>]

\* q.Encode(): the key=value pairs of q sorted by key
Encode(q, order) ==
    LET In(k) == k \in DOMAIN q
        ks == SelectSeq(SortedKeys, In)
    IN  [i \in 1..Len(ks) |-> <<ks[i], q[ks[i]]>>]

Outcome(e, q, order) == [err |-> e, query |-> q, order |-> order]

ValidateAllowed ==
    /\ vPc = "validate"
    /\ \E k \in DOMAIN vParams \ {vOrder[i] : i \in 1..Len(vOrder)} :
          /\ k \in Allowed(vOp)
          /\ vOrder' = Append(vOrder, k)
          /\ vFields' = (vFields \/ (vOp \in BulkOps /\ k = paramFields))
    /\ UNCHANGED <<vOp, vParams, vPc, vQuery, vRuns>>
    /\ UNCHANGED <<libvars, tvars, svars, cvars, rvars>>

ValidateDisallowed ==
    /\ vPc = "validate"
    /\ \E k \in DOMAIN vParams \ {vOrder[i] : i \in 1..Len(vOrder)} :
          /\ k \notin Allowed(vOp)
          /\ vOrder' = Append(vOrder, k)
          /\ vRuns' = Append(vRuns, Outcome(ErrUnexpected(k), <<>>, vOrder'))
    /\ vPc' = "done"
    /\ UNCHANGED <<vOp, vParams, vFields, vQuery>>
    /\ UNCHANGED <<libvars, tvars, svars, cvars, rvars>>

ValidateMissingFields ==
    /\ vPc = "validate"
    /\ {vOrder[i] : i \in 1..Len(vOrder)} = DOMAIN vParams
    /\ vOp \in BulkOps /\ vFields = FALSE
    /\ vRuns' = Append(vRuns, Outcome(ErrRequired, <<>>, vOrder))
    /\ vPc' = "done"
    /\ UNCHANGED <<vOp, vParams, vOrder, vFields, vQuery>>
    /\ UNCHANGED <<libvars, tvars, svars, cvars, rvars>>

ValidatePassed ==
    /\ vPc = "validate"
    /\ {vOrder[i] : i \in 1..Len(vOrder)} = DOMAIN vParams
    /\ ~(vOp \in BulkOps /\ vFields = FALSE)
    /\ vPc' = "encode"
    /\ UNCHANGED <<vOp, vParams, vOrder, vFields, vQuery, vRuns>>
    /\ UNCHANGED <<libvars, tvars, svars, cvars, rvars>>

\* the builder finds a value that is not of its key's type
TypeRejected ==
    /\ vPc = "encode"
    /\ ~CheckTypes(vParams).isNil
    /\ vRuns' = Append(vRuns, Outcome(CheckTypes(vParams), <<>>, vOrder))
    /\ vPc' = "done"
    /\ UNCHANGED <<vOp, vParams, vOrder, vFields, vQuery>>
    /\ UNCHANGED <<libvars, tvars, svars, cvars, rvars>>

\* the builder adds one more parameter of a well-typed set to the query
EncodeKey ==
    /\ vPc = "encode"
    /\ CheckTypes(vParams).isNil
    /\ \E k \in DOMAIN vParams \ DOMAIN vQuery :
          /\ vQuery' = [x \in DOMAIN vQuery \cup {k} |->
                           IF x = k THEN QueryParam(k, vParams[k]) ELSE vQuery[x]]
          /\ vOrder' = Append(vOrder, k)
    /\ UNCHANGED <<vOp, vParams, vPc, vFields, vRuns>>
    /\ UNCHANGED <<libvars, tvars, svars, cvars, rvars>>

\* every parameter is in the query: the builder encodes it
EncodeEnd ==
    /\ vPc = "encode"
    /\ CheckTypes(vParams).isNil
    /\ DOMAIN vQuery = DOMAIN vParams
    /\ vRuns' = Append(vRuns, Outcome(Nil, Encode(vQuery, vOrder), vOrder))
    /\ vPc' = "done"
    /\ UNCHANGED <<vOp, vParams, vOrder, vFields, vQuery>>
    /\ UNCHANGED <<libvars, tvars, svars, cvars, rvars>>

\* the caller invokes the operation once more with the same map
Again ==
    /\ vPc = "done"
    /\ Len(vRuns) = 1
    /\ vPc' = "validate"
    /\ vOrder' = <<>>
    /\ vFields' = FALSE
    /\ vQuery' = NoQuery
    /\ UNCHANGED <<vOp, vParams, vRuns>>
    /\ UNCHANGED <<libvars, tvars, svars, cvars, rvars>>

ParamInit ==
    /\ LibInit
    /\ vOp \in DataOps
    /\ vParams \in ParamMaps
    /\ vPc = "validate"
    /\ vOrder = <<>>
    /\ vFields = FALSE
    /\ vQuery = NoQuery
    /\ vRuns = <<>>
    /\ TranscodeIdle
    /\ OthersIdle

ParamNext ==
    \/ ValidateAllowed
    \/ ValidateDisallowed
    \/ ValidateMissingFields
    \/ ValidatePassed
    \/ TypeRejected
    \/ EncodeKey
    \/ EncodeEnd
    \/ Again

ParamSpec == ParamInit /\ [][ParamNext]_vars

---------------------------------------------------------------------------
(* The transcoding of one decoded bulk response, one row of the data        *)
(* matrix per step.                                                         *)

\* the row is stored under its sensor index
StoreRow ==
    /\ tPc = "rows"
    /\ tNext <= Len(sensorsResp.Data)
    /\ LET b == SensorDataRow(sensorsResp, sensorsResp.Data[tNext])
       IN  /\ ~b.panic
           /\ "sensor_index" \in DOMAIN b.row
           /\ b.row["sensor_index"].type = "float64"
           /\ tData' = setEntry(tData, Code(b.row["sensor_index"]), b.row)
    /\ tNext' = tNext + 1
    /\ UNCHANGED <<sensorsResp, tPc, tRet>>
    /\ UNCHANGED <<libvars, pvars, svars, cvars, rvars>>

\* the row has no "sensor_index" entry: return nil and the error
RowLacksSensorIndex ==
    /\ tPc = "rows"
    /\ tNext <= Len(sensorsResp.Data)
    /\ LET b == SensorDataRow(sensorsResp, sensorsResp.Data[tNext])
       IN  /\ ~b.panic
           /\ "sensor_index" \notin DOMAIN b.row
    /\ tPc' = "returned"
    /\ tRet' = [isNil |-> TRUE, data |-> NoData, err |-> ErrNoSensorIndex]
    /\ UNCHANGED <<sensorsResp, tNext, tData>>
    /\ UNCHANGED <<libvars, pvars, svars, cvars, rvars>>

\* a type assertion or an index in the row's loop panics
RowPanics ==
    /\ tPc = "rows"
    /\ tNext <= Len(sensorsResp.Data)
    /\ LET b == SensorDataRow(sensorsResp, sensorsResp.Data[tNext])
       IN  \/ b.panic
           \/ /\ "sensor_index" \in DOMAIN b.row
              /\ b.row["sensor_index"].type # "float64"
    /\ tPc' = "panicked"
    /\ UNCHANGED <<sensorsResp, tNext, tData, tRet>>
    /\ UNCHANGED <<libvars, pvars, svars, cvars, rvars>>

\* every row is stored: return data, nil
ReturnData ==
    /\ tPc = "rows"
    /\ tNext > Len(sensorsResp.Data)
    /\ tPc' = "returned"
    /\ tRet' = [isNil |-> FALSE, data |-> tData, err |-> Nil]
    /\ UNCHANGED <<sensorsResp, tNext, tData>>
    /\ UNCHANGED <<libvars, pvars, svars, cvars, rvars>>

TranscodeInit ==
    /\ LibInit
    /\ ParamIdle
    /\ \E f \in FieldLists, l \in LocTables, s \in {<<>>, StateLabels},
          g \in {<<>>, FlagLabels} :
          \E d \in Matrices(Len(f)) : sensorsResp = Response(f, l, s, g, d)
    /\ tPc = "rows"
    /\ tNext = 1
    /\ tData = NoData
    /\ tRet = NoDataResult
    /\ OthersIdle

TranscodeNext ==
    \/ StoreRow
    \/ RowLacksSensorIndex
    \/ RowPanics
    \/ ReturnData

TranscodeSpec == TranscodeInit /\ [][TranscodeNext]_vars

---------------------------------------------------------------------------
(* Sequences of group calls against the remote service: each call is       *)
(* answered as the service's groups make it answer, and leaves the groups   *)
(* as the service changed them.                                             *)

\* the rest of a group call: the retained keys and what is not followed
GroupFrame(g) ==
    /\ oldGroups' = groups
    /\ gArg' = g
    /\ UNCHANGED <<apiReadKey, apiWriteKey, readSet, writeSet>>
    /\ UNCHANGED <<pvars, tvars, cvars, rvars>>

GroupCreateGroup ==
    /\ op = "idle"
    /\ \E n \in GroupNames :
         \E o \in Outcomes(CreateGroupResult(n, NoReply).sent, groups) :
            /\ Record("CreateGroup", "", NoParams, CreateGroupResult(n, o.reply))
            /\ groups' = o.groups
    /\ GroupFrame(0)

GroupAddMember ==
    /\ op = "idle"
    /\ \E s \in SensorIndexes, g \in GroupIDs :
         LET body == MarshalMember(<<s>>, <<>>, <<>>)
         IN  \E o \in Outcomes(addMember(g, body, NoReply).sent, groups) :
                /\ Record("AddMember", "", NoParams, addMember(g, body, o.reply))
                /\ groups' = o.groups
                /\ GroupFrame(g)

GroupRemoveMember ==
    /\ op = "idle"
    /\ \E m \in MemberIDs, g \in GroupIDs :
         \E o \in Outcomes(RemoveMemberResult(m, g, NoReply).sent, groups) :
            /\ Record("RemoveMember", "", NoParams, RemoveMemberResult(m, g, o.reply))
            /\ groups' = o.groups
            /\ GroupFrame(g)

GroupDeleteGroup ==
    /\ op = "idle"
    /\ \E g \in GroupIDs :
         \E o \in Outcomes(DeleteGroupResult(g, NoReply).sent, groups) :
            /\ Record("DeleteGroup", "", NoParams, DeleteGroupResult(g, o.reply))
            /\ groups' = o.groups
            /\ GroupFrame(g)

GroupNext ==
    \/ Return
    \/ CallSetAPIKey
    \/ GroupCreateGroup
    \/ GroupAddMember
    \/ GroupRemoveMember
    \/ GroupDeleteGroup

GroupSpec == Init /\ [][GroupNext]_vars

---------------------------------------------------------------------------
(* SetAPIKey(new), past its CheckAPIKey, storing new into apiReadKey while  *)
(* doRequest runs on another goroutine for a GET.  Nothing synchronises the *)
(* two, and a Go string variable is two machine words, a data pointer and   *)
(* a length: the store and the load are two word accesses each, in either   *)
(* order, and they interleave freely.  doRequest reads the variable twice:  *)
(* for len(apiReadKey) == 0 and for req.Header.Add(keyHeader, apiReadKey).  *)

\* keys of different lengths; "" is an empty slot
RaceKeys == {"", "k1", "key22"}

\* a string as its two words
StringWords(p, n) == [ptr |-> p, len |-> n]
WordsOf(k) == StringWords(k, Len(k))

\* the string value of the words w is the key k
SameString(w, k) == w.len = Len(k) /\ (w.len = 0 \/ w.ptr = k)

RaceFrame ==
    /\ UNCHANGED <<raceOld, raceNew>>
    /\ UNCHANGED <<libvars, pvars, tvars, svars, cvars>>

\* apiReadKey = k, the data word
SetStorePtr ==
    /\ wPc \in {"start", "len"}
    /\ memPtr' = raceNew
    /\ wPc' = IF wPc = "start" THEN "ptr" ELSE "done"
    /\ UNCHANGED <<memLen, rPc, chkLen, ldPtr, ldLen>>
    /\ RaceFrame

\* apiReadKey = k, the length word
SetStoreLen ==
    /\ wPc \in {"start", "ptr"}
    /\ memLen' = Len(raceNew)
    /\ wPc' = IF wPc = "start" THEN "len" ELSE "done"
    /\ UNCHANGED <<memPtr, rPc, chkLen, ldPtr, ldLen>>
    /\ RaceFrame

\* len(apiReadKey) == 0 is false
ReqCheckLen ==
    /\ rPc = "check"
    /\ memLen # 0
    /\ chkLen' = memLen
    /\ rPc' = "load"
    /\ UNCHANGED <<memPtr, memLen, wPc, ldPtr, ldLen>>
    /\ RaceFrame

\* len(apiReadKey) == 0: return the error "PurpleAir key not set [read]"
ReqKeyNotSet ==
    /\ rPc = "check"
    /\ memLen = 0
    /\ chkLen' = 0
    /\ rPc' = "failed"
    /\ UNCHANGED <<memPtr, memLen, wPc, ldPtr, ldLen>>
    /\ RaceFrame

\* req.Header.Add(keyHeader, apiReadKey), the data word
ReqLoadPtr ==
    /\ rPc \in {"load", "len"}
    /\ ldPtr' = memPtr
    /\ rPc' = IF rPc = "load" THEN "ptr" ELSE "done"
    /\ UNCHANGED <<memPtr, memLen, wPc, chkLen, ldLen>>
    /\ RaceFrame

\* req.Header.Add(keyHeader, apiReadKey), the length word
ReqLoadLen ==
    /\ rPc \in {"load", "ptr"}
    /\ ldLen' = memLen
    /\ rPc' = IF rPc = "load" THEN "len" ELSE "done"
    /\ UNCHANGED <<memPtr, memLen, wPc, chkLen, ldPtr>>
    /\ RaceFrame

\* a read key (or none) is retained; SetAPIKey is about to store a key the
\* service classified Read, doRequest is about to check the slot
RaceInit ==
    /\ LibInit
    /\ ParamIdle
    /\ TranscodeIdle
    /\ ServiceIdle
    /\ CodecIdle
    /\ raceOld \in RaceKeys
    /\ raceNew \in RaceKeys \ {""}
    /\ memPtr = raceOld
    /\ memLen = Len(raceOld)
    /\ wPc = "start"
    /\ rPc = "check"
    /\ chkLen = 0
    /\ ldPtr = ""
    /\ ldLen = 0

RaceNext ==
    \/ SetStorePtr
    \/ SetStoreLen
    \/ ReqCheckLen
    \/ ReqKeyNotSet
    \/ ReqLoadPtr
    \/ ReqLoadLen

RaceSpec == RaceInit /\ [][RaceNext]_vars

---------------------------------------------------------------------------
(* Decoders of the service's payloads and the AddParam helpers *)

(* A decoded JSON object is a function from the keys it contains to their   *)
(* values.  json.Unmarshal leaves the Go zero value in a struct field whose *)
(* key the object lacks.                                                    *)
Field(p, k, zero) == IF k \in DOMAIN p THEN p[k] ELSE zero

(* time.Unix(sec, 0) is the instant sec seconds after 1970-01-01T00:00:00Z. *)
(* A time.Time counts seconds from year 1 (sec + unixToInternal); that      *)
(* offset is a constant, so the instant is kept here as whole days since    *)
(* 1970-01-01 and the second of that day, as Time.Date and Time.Clock split *)
(* it (floored division, also before 1970).                                 *)
secondsPerDay == 86400

\* the epoch taken for milliseconds
UnixMilli(sec) ==
    [day |-> (sec \div 1000) \div secondsPerDay,
     sod |-> (sec \div 1000) % secondsPerDay]

Unix(sec) ==
    [day |-> sec \div secondsPerDay, sod |-> sec % secondsPerDay]

UnmarshalGroup(p) ==
    [ID |-> Field(p, "id", 0),
     Name |-> Field(p, "name", ""),
     Created |-> Unix(Field(p, "created", 0))]

UnmarshalMember(p) ==
    [ID |-> Field(p, "id", 0),
     Index |-> Field(p, "sensor_index", 0),
     Created |-> Unix(Field(p, "created", 0))]

\* of the seven averages, pm2.5 stands for all (in tenths)
UnmarshalSensorStats(p) ==
    [PM_2_5 |-> Field(p, "pm2.5", 0),
     Timestamp |-> Unix(Field(p, "time_stamp", 0))]

\* SensorInfo, four of its fields: every field is a plain int, float64 or
\* string
UnmarshalSensorInfo(p) ==
    [Index |-> Field(p, "sensor_index", 0),
     Name |-> Field(p, "name", ""),
     Alt |-> Field(p, "altitude", 0),
     RSSI |-> Field(p, "rssi", 0)]

\* strconv.Itoa
Digit(d) ==
    CASE d = 0 -> "0" [] d = 1 -> "1" [] d = 2 -> "2" [] d = 3 -> "3"
      [] d = 4 -> "4" [] d = 5 -> "5" [] d = 6 -> "6" [] d = 7 -> "7"
      [] d = 8 -> "8" [] d = 9 -> "9"

RECURSIVE Itoa(_)
Itoa(i) ==
    IF i < 0 THEN "-" \o Itoa(0 - i)
    ELSE IF i < 10 THEN Digit(i)
    ELSE Itoa(i \div 10) \o Digit(i % 10)

\* the elements written one after another, the separator dropped
RECURSIVE JoinNoSep(_, _)
JoinNoSep(elems, sep) ==
    IF elems = <<>> THEN "" ELSE elems[1] \o JoinNoSep(Tail(elems), sep)

\* strings.Join: the first element, then sep and the next one, in order
RECURSIVE joinLoop(_, _, _, _)
joinLoop(elems, sep, i, b) ==
    IF i > Len(elems) THEN b
    ELSE joinLoop(elems, sep, i + 1, (b \o sep) \o elems[i])

Join(elems, sep) ==
    IF Len(elems) = 0 THEN ""
    ELSE IF Len(elems) = 1 THEN elems[1]
    ELSE joinLoop(elems, sep, 2, elems[1])

\* sp[key] = v
MapSet(sp, key, v) ==
    [k \in DOMAIN sp \cup {key} |-> IF k = key THEN v ELSE sp[k]]

ParamFieldsAddParam(value, sp) ==
    MapSet(sp, paramFields, GoString(Join(value, ",")))

ParamShowOnlyAddParam(value, sp) ==
    MapSet(sp, paramShowOnly,
           GoString(Join([j \in 1..Len(value) |-> Itoa(value[j])], ",")))

\* inputs
Epochs == {0, 1, 86399, 86400, 1635575338, 2147483647, 0 - 1, 0 - 86401}
PayloadIDs == {0, 1, 77}
PayloadNames == {"", "g"}
InfoKeys == {"sensor_index", "name", "altitude", "rssi"}
ListedIndexes == {7, 42, 105}
ListedFields == {"name", "pm2.5", "rssi"}
Lists(S) == UNION {[1..n -> S] : n \in 0..MaxList}
PriorKeys == {paramFields, paramShowOnly, paramLocation}
PriorValue(k) == IF k = paramLocation THEN GoInt(0) ELSE GoString("old")
PriorMaps == {[k \in ks |-> PriorValue(k)] : ks \in SUBSET PriorKeys}

CodecFrame == UNCHANGED <<libvars, pvars, tvars, svars, rvars>>

Applied(fn, in, out) ==
    /\ cFn' = fn
    /\ cIn' = in
    /\ cOut' = out
    /\ CodecFrame

DecodeGroup ==
    \E i \in PayloadIDs, n \in PayloadNames, e \in Epochs :
        LET p == [k \in {"id", "name", "created"} |->
                     CASE k = "id" -> i [] k = "name" -> n [] k = "created" -> e]
        IN  /\ cFn = ""
            /\ Applied("Group", p, UnmarshalGroup(p))

DecodeMember ==
    \E i \in PayloadIDs, s \in PayloadIDs, e \in Epochs :
        LET p == [k \in {"id", "sensor_index", "created"} |->
                     CASE k = "id" -> i [] k = "sensor_index" -> s
                       [] k = "created" -> e]
        IN  /\ cFn = ""
            /\ Applied("Member", p, UnmarshalMember(p))

DecodeSensorStats ==
    \E v \in {0, 1231}, e \in Epochs :
        LET p == [k \in {"pm2.5", "time_stamp"} |->
                     CASE k = "pm2.5" -> v [] k = "time_stamp" -> e]
        IN  /\ cFn = ""
            /\ Applied("SensorStats", p, UnmarshalSensorStats(p))

DecodeSensorInfo ==
    \E ks \in SUBSET InfoKeys :
        \E si \in {0, 5}, n \in PayloadNames, a \in {0, 30}, rs \in {0, 0 - 60} :
            LET p == [k \in ks |->
                         CASE k = "sensor_index" -> si [] k = "name" -> n
                           [] k = "altitude" -> a [] k = "rssi" -> rs]
            IN  /\ cFn = ""
                /\ Applied("SensorInfo", p, UnmarshalSensorInfo(p))

ApplyParamFields ==
    \E value \in Lists(ListedFields), sp \in PriorMaps :
        /\ cFn = ""
        /\ Applied("ParamFields", [value |-> value, sp |-> sp],
                ParamFieldsAddParam(value, sp))

ApplyParamShowOnly ==
    \E value \in Lists(ListedIndexes), sp \in PriorMaps :
        /\ cFn = ""
        /\ Applied("ParamShowOnly", [value |-> value, sp |-> sp],
                ParamShowOnlyAddParam(value, sp))

\* the caller takes the result
CodecReturn ==
    /\ cFn # ""
    /\ cFn' = ""
    /\ cIn' = <<>>
    /\ cOut' = <<>>
    /\ CodecFrame

CodecNext ==
    \/ DecodeGroup
    \/ DecodeMember
    \/ DecodeSensorStats
    \/ DecodeSensorInfo
    \/ ApplyParamFields
    \/ ApplyParamShowOnly
    \/ CodecReturn

CodecSpec == Init /\ [][CodecNext]_vars

---------------------------------------------------------------------------
(* Properties of key management *)

SlotsUnchanged == apiReadKey = oldReadKey /\ apiWriteKey = oldWriteKey

\* the service accepted the key (201, decodable body) and classified it
Classified(kts) ==
    /\ sent # <<>>
    /\ ~reply.fail
    /\ reply.status = StatusCreated
    /\ reply.body.decodable
    /\ reply.body.api_key_type \in kts

\* the service rejected the key: it answered with a status other than 201
KeyRejected == sent # <<>> /\ ~reply.fail /\ reply.status # StatusCreated

\* C1: a SetAPIKey(k) that succeeds with classification Read leaves k in the
\* read slot and the write slot as it was; one that succeeds with
\* classification Write leaves k in the write slot and the read slot as it was.
C1_SetStoresInMatchingSlot ==
    (op = "SetAPIKey" /\ ret.err.isNil) =>
        /\ ret.kt = KeyRead => (apiReadKey = arg /\ apiWriteKey = oldWriteKey)
        /\ ret.kt = KeyWrite => (apiWriteKey = arg /\ apiReadKey = oldReadKey)

\* a Read key replacing a different retained read key, a write key being retained
C1_Witness ==
    /\ op = "SetAPIKey" /\ ret.err.isNil /\ ret.kt = KeyRead
    /\ oldReadKey # "" /\ oldReadKey # arg /\ apiReadKey = arg
    /\ oldWriteKey # "" /\ oldWriteKey # arg

\* C2: CheckAPIKey leaves both retained key slots as they were, whatever the
\* key and whatever the service answers.
C2_CheckRetainsNothing ==
    op = "CheckAPIKey" => SlotsUnchanged

\* a key not retained is checked and classified Read
C2_Witness ==
    /\ op = "CheckAPIKey" /\ Classified({KeyRead}) /\ ret.kt = KeyRead
    /\ arg # "" /\ arg # apiReadKey /\ arg # apiWriteKey

\* C3: a SetAPIKey whose key the service classifies ReadDisabled,
\* WriteDisabled or Unknown leaves both slots as they were.
C3_DisabledOrUnknownStoresNothing ==
    (op = "SetAPIKey" /\ Classified({KeyReadDisabled, KeyWriteDisabled, KeyUnknown}))
        => SlotsUnchanged

\* a key not retained is classified ReadDisabled
C3_Witness ==
    /\ op = "SetAPIKey" /\ Classified({KeyReadDisabled})
    /\ arg # "" /\ arg # oldReadKey /\ arg # oldWriteKey /\ ret.err.isNil

\* C4: for a key the service rejects (status other than 201) CheckAPIKey and
\* SetAPIKey return Unknown with a non-nil error, and SetAPIKey leaves both
\* slots as they were.
C4_RejectedKeyIsUnknownWithError ==
    (op \in KeyOps /\ KeyRejected) =>
        /\ ret.kt = KeyUnknown
        /\ ~ret.err.isNil
        /\ SlotsUnchanged

\* SetAPIKey of a key answered with a non-201 status whose body says READ
C4_Witness ==
    /\ op = "SetAPIKey" /\ KeyRejected
    /\ reply.body.decodable /\ reply.body.api_key_type = KeyRead
    /\ arg # "" /\ arg # oldReadKey

\* C5: for a key the service accepts (201) and classifies Read or Write,
\* CheckAPIKey and SetAPIKey each return the classification the service
\* reported, hence the same one, with a nil error.
C5_AcceptedKeyReturnsClassification ==
    (op \in KeyOps /\ Classified({KeyRead, KeyWrite})) =>
        /\ ret.kt = reply.body.api_key_type
        /\ ret.err.isNil

\* SetAPIKey of a key the service classifies Write
C5_Witness ==
    op = "SetAPIKey" /\ Classified({KeyWrite}) /\ ret.kt = KeyWrite /\ arg # ""

---------------------------------------------------------------------------
(* Properties of the operations that need a retained key *)

\* the parameter set of the outstanding call is one its operation accepts
\* the keys of the outstanding call's parameters pass its allow-list and,
\* for a bulk call, "fields" is among them
KeysAccepted ==
    CASE op = "SensorData" -> DOMAIN params \subseteq SensorAllowed
      [] op = "MemberData" -> DOMAIN params \subseteq SingleAllowed
      [] op \in {"SensorsData", "MembersData"} ->
            DOMAIN params \subseteq BulkAllowed /\ paramFields \in DOMAIN params
      [] OTHER -> TRUE

\* the known keys of sp whose value is not of the key's type
WrongTyped(sp) == {k \in DOMAIN sp \cap KnownParams : sp[k].type # ParamType(k)}

\* the outstanding call's parameters pass validation
ParamsAccepted == KeysAccepted /\ WrongTyped(params) = {}

\* the outstanding call carries a read-key override it is allowed to carry
OverrideSupplied == op = "SensorData" /\ paramReadKey \in DOMAIN params

\* the retained key the outstanding call needs was there when it was
\* invoked, or the call needs none
NeededKeyRetained ==
    CASE op \in WriteOps -> oldWriteKey # ""
      [] op \in ReadOps -> oldReadKey # "" \/ OverrideSupplied
      [] OTHER -> TRUE

\* C6: an operation invoked while the slot it needs is empty (a write
\* operation without a write key, a read or data operation without a read
\* key) returns a non-nil error and issues no request.
C6_MissingKeyFailsLocally ==
    (op \in WriteOps \cup ReadOps /\ ~NeededKeyRetained) =>
        /\ ~ret.err.isNil
        /\ sent = <<>>

\* C7 as stated: once SetAPIKey has returned Read (Write) without error,
\* every later read (write) operation whose parameters are accepted gets
\* past the local key check, that is, issues its request.
C7_SetThenKeyCheckPasses ==
    /\ (readSet # <<>> /\ op \in ReadOps /\ ParamsAccepted) => sent # <<>>
    /\ (writeSet # <<>> /\ op \in WriteOps) => sent # <<>>

\* C7, amended: the same, as long as the key most recently accepted as Read
\* (Write) is not the empty string.
C7_NonEmptySetThenKeyCheckPasses ==
    /\ (readSet # <<>> /\ readSet[1] # "" /\ op \in ReadOps /\ ParamsAccepted)
          => sent # <<>>
    /\ (writeSet # <<>> /\ writeSet[1] # "" /\ op \in WriteOps) => sent # <<>>

\* ListGroupMembers gets past the key check on a read key set earlier, no
\* write key ever having been set
C7_Witness ==
    /\ op = "ListGroupMembers" /\ sent # <<>>
    /\ readSet # <<>> /\ readSet[1] # "" /\ writeSet = <<>>
    /\ sent[1].key = readSet[1]

\* C8 as stated: a non-empty slot stays non-empty, and a slot changes only by
\* a successful SetAPIKey whose classification matches the slot.
C8_SlotStaysNonEmpty ==
    /\ oldReadKey # "" => apiReadKey # ""
    /\ oldWriteKey # "" => apiWriteKey # ""
    /\ apiReadKey # oldReadKey =>
          (op = "SetAPIKey" /\ ret.err.isNil /\ ret.kt = KeyRead)
    /\ apiWriteKey # oldWriteKey =>
          (op = "SetAPIKey" /\ ret.err.isNil /\ ret.kt = KeyWrite)

\* C8, amended: a slot changes only by a successful SetAPIKey whose
\* classification matches the slot, and then holds the key passed; so a
\* non-empty slot becomes empty only when that key is the empty string.
C8_SlotChangesOnlyByMatchingSet ==
    /\ apiReadKey # oldReadKey =>
          (op = "SetAPIKey" /\ ret.err.isNil /\ ret.kt = KeyRead /\ apiReadKey = arg)
    /\ apiWriteKey # oldWriteKey =>
          (op = "SetAPIKey" /\ ret.err.isNil /\ ret.kt = KeyWrite /\ apiWriteKey = arg)
    /\ (oldReadKey # "" /\ apiReadKey = "") => arg = ""
    /\ (oldWriteKey # "" /\ apiWriteKey = "") => arg = ""

\* a retained write key is replaced by another one
C8_Witness ==
    /\ op = "SetAPIKey" /\ ret.kt = KeyWrite
    /\ oldWriteKey # "" /\ apiWriteKey # "" /\ apiWriteKey # oldWriteKey

\* the key header of request q is the key retained in the slot of q's method
CarriesRetainedKey(q) ==
    /\ q.method = MethodGet => q.key = oldReadKey
    /\ q.method \in {MethodPost, MethodDelete} => q.key = oldWriteKey

\* C9 as stated: every request of every public operation, key check and set
\* included, carries the retained read key on GET and the retained write key
\* on POST and DELETE.
C9_EveryRequestCarriesRetainedKey ==
    \A i \in 1..Len(sent) : CarriesRetainedKey(sent[i])

\* C9, amended: every request issued through doRequest (group, membership
\* and data operations) carries the retained read key on GET and the
\* retained write key on POST and DELETE; the GET of CheckAPIKey and
\* SetAPIKey carries the key under validation.
C9_RequestKeyByMethod ==
    \A i \in 1..Len(sent) :
        /\ op \notin KeyOps => CarriesRetainedKey(sent[i])
        /\ op \in KeyOps => (sent[i].method = MethodGet /\ sent[i].key = arg)

\* a POST goes out with the write key while a different read key is retained
C9_Witness ==
    /\ op = "AddMember" /\ Len(sent) = 1 /\ sent[1].method = MethodPost
    /\ apiReadKey # "" /\ apiWriteKey # "" /\ apiReadKey # apiWriteKey
    /\ sent[1].key = apiWriteKey

\* C10: an invocation issues at most one request, and exactly one when its
\* parameters are accepted and the key it needs is retained; a failed
\* request is not issued again.
C10_OneRequestPerCall ==
    /\ Len(sent) <= 1
    /\ op # "idle" => ((ParamsAccepted /\ NeededKeyRetained) <=> Len(sent) = 1)

\* the one request of an AddMember met a transport failure
C10_Witness ==
    /\ op = "AddMember" /\ Len(sent) = 1 /\ reply.fail /\ ~ret.err.isNil

---------------------------------------------------------------------------
(* Properties of parameter validation *)

ErrKeyNotSet == Err("PurpleAir key not set [read]")

\* C11: a data operation that rejects its parameter set (a key outside its
\* allow-list, or no "fields" key for a bulk call) returns the error without
\* having issued any request.
C11_RejectedBeforeAnyRequest ==
    (op \in DataOps /\ ~ParamsAccepted) =>
        /\ ~ret.err.isNil
        /\ ret.err # ErrKeyNotSet
        /\ sent = <<>>
        /\ reply = NoReply

\* MembersData rejects a set without "fields" while a read key is retained
C11_Witness ==
    /\ op = "MembersData" /\ oldReadKey # ""
    /\ DOMAIN params = {paramShowOnly}
    /\ ~ret.err.isNil /\ sent = <<>>

\* the keys the bulk calls allow
BulkAllowList == {"fields", "location_type", "read_keys", "show_only",
                  "modified_since", "max_age", "nwlng", "nwlat", "selng", "selat"}

\* the errors of a disallowed key
NotAllowedErrors == {ErrUnexpected(k) : k \in ParamKeys}

\* C12: a bulk call whose parameter set holds allowed keys only but not
\* "fields" is rejected with the required-parameter error, which is none of
\* the not-allowed errors; the same set with "fields" passes the key
\* validation (its request goes out whenever its values are of their keys'
\* types and a read key is retained).
C12_BulkRequiresFields ==
    (op \in BulkOps /\ DOMAIN params \subseteq BulkAllowList) =>
        /\ paramFields \notin DOMAIN params =>
              /\ ret.err = ErrRequired
              /\ ret.err \notin NotAllowedErrors
              /\ sent = <<>>
        /\ paramFields \in DOMAIN params =>
              /\ ret.err # ErrRequired
              /\ ret.err \notin NotAllowedErrors
              /\ (oldReadKey # "" /\ WrongTyped(params) = {}) => Len(sent) = 1

\* SensorsData with only "show_only" fails for want of "fields"
C12_Witness ==
    /\ op = "SensorsData" /\ oldReadKey # ""
    /\ DOMAIN params = {paramShowOnly}
    /\ ret.err = ErrRequired /\ sent = <<>>

\* the allow-list of each data operation
AllowList(o) ==
    CASE o = "SensorData" -> {"fields", "read_key"}
      [] o = "MemberData" -> {"fields"}
      [] o \in BulkOps -> BulkAllowList

\* C13: a data operation given a key outside its allow-list issues no
\* request and returns the not-allowed error naming such a key; SensorData
\* allows "fields" and "read_key", MemberData only "fields", the bulk calls
\* the ten keys of BulkAllowList, and no set within the allow-list gets a
\* not-allowed error.
C13_DisallowedKeyRejectedByName ==
    op \in DataOps =>
        LET bad == DOMAIN params \ AllowList(op)
        IN  /\ bad # {} =>
                  (sent = <<>> /\ \E k \in bad : ret.err = ErrUnexpected(k))
            /\ bad = {} => ret.err \notin NotAllowedErrors

\* MemberData refuses the read-key override while a read key is retained
C13_Witness ==
    /\ op = "MemberData" /\ oldReadKey # ""
    /\ DOMAIN params = {paramFields, paramReadKey}
    /\ ret.err = ErrUnexpected(paramReadKey) /\ sent = <<>>

\* the validation errors that name a wrong-typed key of sp and its type
WrongTypeErrors(sp) == {ErrWrongType(k, sp[k].type) : k \in WrongTyped(sp)}

C16_SameSetSameOutcome ==
    Len(vRuns) = 2 =>
        /\ vRuns[1].err = vRuns[2].err
        /\ vRuns[1].query = vRuns[2].query

\* C16, amended: two invocations with the same parameter set agree on the
\* decision and on the query, and on the error too when the set holds at
\* most one disallowed key; with two or more disallowed keys each invocation
\* names one of them, not necessarily the same one.
C16_DeterministicUpToNamedKey ==
    Len(vRuns) = 2 =>
        LET bad == DOMAIN vParams \ AllowList(vOp)
        IN  /\ vRuns[1].err.isNil <=> vRuns[2].err.isNil
            /\ vRuns[1].err.isNil <=>
                  /\ bad = {}
                  /\ vOp \in BulkOps => paramFields \in DOMAIN vParams
                  /\ WrongTyped(vParams) = {}
            /\ vRuns[1].query = vRuns[2].query
            /\ Cardinality(bad) <= 1 => vRuns[1].err = vRuns[2].err
            /\ Cardinality(bad) >= 2 =>
                  \A i \in 1..2 : \E k \in bad : vRuns[i].err = ErrUnexpected(k)

\* a bulk call accepted twice, its keys visited in different orders, with
\* the same two-pair query both times
C16_Witness ==
    /\ Len(vRuns) = 2 /\ vOp \in BulkOps
    /\ vRuns[1].err.isNil /\ vRuns[2].err.isNil
    /\ vRuns[1].order # vRuns[2].order
    /\ Len(vRuns[1].query) = 2 /\ vRuns[1].query = vRuns[2].query

---------------------------------------------------------------------------
(* Properties of the bulk response transcoder *)

\* the call returned a data set
ReturnedData == tPc = "returned" /\ tRet.err = Nil /\ ~tRet.isNil

RowNumbers == 1..Len(sensorsResp.Data)

\* the positions of the field-name list that name k, and the last of them
Positions(k) == {j \in 1..Len(sensorsResp.Fields) : sensorsResp.Fields[j] = k}
LastPosition(k) == CHOOSE j \in Positions(k) : \A i \in Positions(k) : i <= j

\* the sensor index row i carries
RowIndex(i) == Code(sensorsResp.Data[i][LastPosition("sensor_index")])

\* no later row carries the sensor index of row i
LastWithIndex(i) == \A h \in RowNumbers : h > i => RowIndex(h) # RowIndex(i)

\* C17 as stated: a successful call on n rows returns n entries, whatever
\* sensor_index values the rows carry.
C17_OneEntryPerRow ==
    ReturnedData => Cardinality(DOMAIN tRet.data) = Len(sensorsResp.Data)

\* C17: a successful call returns one entry for each distinct sensor_index
\* value among the rows; rows that carry the same value share one entry,
\* which is the one built from the last of them.
C17_OneEntryPerIndex ==
    ReturnedData =>
        /\ DOMAIN tRet.data = {RowIndex(i) : i \in RowNumbers}
        /\ Cardinality(DOMAIN tRet.data) = Cardinality({RowIndex(i) : i \in RowNumbers})
        /\ \A i \in RowNumbers :
              LastWithIndex(i) =>
                  tRet.data[RowIndex(i)] =
                      SensorDataRow(sensorsResp, sensorsResp.Data[i]).row

\* two different rows with the same sensor index, returned as one entry
C17_Witness ==
    /\ ReturnedData
    /\ Len(sensorsResp.Data) = 2
    /\ sensorsResp.Data[1] # sensorsResp.Data[2]
    /\ RowIndex(1) = RowIndex(2)
    /\ Cardinality(DOMAIN tRet.data) = 1

\* a row of the response has no position named "sensor_index"
SomeRowLacksIndex ==
    \E i \in RowNumbers :
        \A j \in 1..Len(sensorsResp.Data[i]) :
            j \in DOMAIN sensorsResp.Fields => sensorsResp.Fields[j] # "sensor_index"

\* C18: when a row of the response has no "sensor_index" entry the call
\* ends by returning an error and no data set.
C18_RowWithoutIndexFailsCall ==
    (tPc \in {"returned", "panicked"} /\ SomeRowLacksIndex) =>
        /\ tPc = "returned"
        /\ tRet.err # Nil
        /\ tRet.isNil

\* the label the location-type table holds for the raw code v
LocationLabel(v) == GoString(sensorsResp.Locs[Code(v) + 1])

\* C19 as stated: for every row, the entry under its sensor index maps
\* "location_type" to the label of the row's code and keeps the row's raw
\* sensor_index value.
C19_EveryRowLabelled ==
    ReturnedData =>
        \A i \in RowNumbers :
            /\ tRet.data[RowIndex(i)]["sensor_index"] =
                   sensorsResp.Data[i][LastPosition("sensor_index")]
            /\ \A j \in Positions("location_type") :
                   tRet.data[RowIndex(i)]["location_type"] =
                       LocationLabel(sensorsResp.Data[i][j])

\* C19: when the call returns a data set, for every row that is the last
\* to carry its sensor index, the entry under that index maps
\* "location_type" to the label the location-type table holds at the raw
\* code found at the last position named "location_type", and maps
\* "sensor_index" to the row's raw value.
C19_LastRowLabelled ==
    ReturnedData =>
        \A i \in RowNumbers :
            LastWithIndex(i) =>
                /\ tRet.data[RowIndex(i)]["sensor_index"] =
                       sensorsResp.Data[i][LastPosition("sensor_index")]
                /\ Positions("location_type") # {} =>
                       tRet.data[RowIndex(i)]["location_type"] =
                           LocationLabel(sensorsResp.Data[i][LastPosition("location_type")])

\* fields [sensor_index, location_type], table [outside, inside] and the
\* one row [1, 1] give key 1 with location_type = inside
C19_Witness ==
    /\ ReturnedData
    /\ sensorsResp.Fields = <<"sensor_index", "location_type">>
    /\ sensorsResp.Locs = LocLabels
    /\ sensorsResp.Data = <<<<GoFloat(LocInside), GoFloat(LocInside)>>>>
    /\ tRet.data[LocInside]["location_type"] = GoString("inside")
    /\ tRet.data[LocInside]["sensor_index"] = GoFloat(LocInside)

\* the three enumerated fields of DataFields and the table of each
Enumerated == {"location_type", "channel_state", "channel_flags"}
Table(k) ==
    CASE k = "location_type" -> sensorsResp.Locs
      [] k = "channel_state" -> sensorsResp.States
      [] k = "channel_flags" -> sensorsResp.Flags

\* C20: in the returned data set, the value of an enumerated field
\* (location_type, channel_state, channel_flags) is the label its lookup
\* table holds at the raw code, and the value of every other field is the
\* raw value.  Rows and positions overwritten by later ones are left aside.
C20_EnumeratedFieldsLabelled ==
    ReturnedData =>
        \A i \in RowNumbers : \A k \in FieldNames :
            (LastWithIndex(i) /\ Positions(k) # {}) =>
                LET v == sensorsResp.Data[i][LastPosition(k)]
                    out == tRet.data[RowIndex(i)][k]
                IN  IF k \in Enumerated
                    THEN Code(v) < Len(Table(k)) =>
                             out = GoString(Table(k)[Code(v) + 1])
                    ELSE out = v

---------------------------------------------------------------------------
(* Properties of error reporting *)

\* the status each operation takes for success
SuccessStatus ==
    CASE op \in {"CheckAPIKey", "SetAPIKey", "CreateGroup", "AddMember"} -> StatusCreated
      [] op \in {"DeleteGroup", "RemoveMember"} -> StatusNoContent
      [] OTHER -> StatusOK

\* the service answered the outstanding call with a non-success status
NonSuccess ==
    /\ op # "idle"
    /\ sent # <<>>
    /\ ~reply.fail
    /\ reply.status # SuccessStatus

\* C21: for any non-success response the error returned has the message
\* "[error]: description", made of the payload's error code and description,
\* when the description is present, and the error code alone when the
\* description is absent or empty.
C21_ErrorMessageFromPayload ==
    NonSuccess =>
        /\ ~ret.err.isNil
        /\ ret.err.msg =
               IF reply.body.description # ""
               THEN "[" \o reply.body.error \o "]: " \o reply.body.description
               ELSE reply.body.error

\* C25: an operation whose request meets a transport failure returns the
\* HTTP collaborator's error as it is; it never returns a nil error then.
C25_TransportErrorPassedThrough ==
    (op # "idle" /\ sent # <<>> /\ reply.fail) => ret.err = ErrTransport

---------------------------------------------------------------------------
(* Properties of the key classification *)

KeyTypes == {KeyUnknown, KeyRead, KeyWrite, KeyReadDisabled, KeyWriteDisabled}

\* C27: the classification CheckAPIKey and SetAPIKey return is one of
\* Unknown, Read, Write, ReadDisabled and WriteDisabled, whatever the
\* response body carries.
C27_ClassificationInRange ==
    op \in KeyOps => ret.kt \in KeyTypes

---------------------------------------------------------------------------
(* Properties of the membership requests *)

\* the body of the request carries the owner email and the location of pi
CarriesPrivateInfo(b, pi) ==
    /\ b.owner_email = <<pi[1].Email>>
    /\ b.location_type = <<pi[1].Loc>>

CarriesNoPrivateInfo(b) == b.owner_email = <<>> /\ b.location_type = <<>>

\* a PrivateInfo that names an owner email, or none at all
NamedPrivateInfos == {pi \in PrivateInfos : pi # <<>> => pi[1].Email # ""}

\* C30: the request of an AddMember given a PrivateInfo (with an owner
\* email) carries its owner email and its location, for Outside and Inside
\* alike; the request of an AddMember given none carries neither field.
C30_PrivateInfoInBody ==
    [][\A g \in GroupIDs, pi \in NamedPrivateInfos, r \in OpReplies :
          /\ \A s \in SensorIndexes :
                (AddMemberByIndex(s, g, pi, r) /\ sent' # <<>>) =>
                    IF pi = <<>> THEN CarriesNoPrivateInfo(sent'[1].body)
                    ELSE CarriesPrivateInfo(sent'[1].body, pi)
          /\ \A s \in SensorIDs :
                (AddMemberByID(s, g, pi, r) /\ sent' # <<>>) =>
                    IF pi = <<>> THEN CarriesNoPrivateInfo(sent'[1].body)
                    ELSE CarriesPrivateInfo(sent'[1].body, pi)]_vars

---------------------------------------------------------------------------
(* Properties of the transcoder on malformed responses *)

\* a row holds, at a position naming an enumerated field, a code its lookup
\* table has no label for (the table is absent or too short)
CodeWithoutLabel ==
    \E i \in RowNumbers : \E j \in 1..Len(sensorsResp.Data[i]) :
        /\ j \in DOMAIN sensorsResp.Fields
        /\ sensorsResp.Fields[j] \in Enumerated
        /\ Code(sensorsResp.Data[i][j]) >= Len(Table(sensorsResp.Fields[j]))

\* C29: when a row's code has no label in the lookup table of its
\* enumerated field, the call ends by returning an error and no data set; it
\* does not abort and does not return a data set with a value put in place
\* of the label.
C29_MissingLabelIsDecodeError ==
    (tPc \in {"returned", "panicked"} /\ CodeWithoutLabel) =>
        /\ tPc = "returned"
        /\ tRet.err # Nil
        /\ tRet.isNil

---------------------------------------------------------------------------
(* Properties of the group lifecycle *)

\* group gArg had members when the outstanding call was invoked
HadMembers == gArg \in DOMAIN oldGroups /\ oldGroups[gArg] # {}

\* C22: in every sequence of group calls, DeleteGroup(g) returns success
\* only when group g had no members; while a member remains it returns an
\* error, which is the one of the remote response (a status other than 204)
\* when the service answered, and the groups and members are as before.
C22_DeleteOnlyEmptyGroup ==
    op = "DeleteGroup" =>
        /\ ret.err.isNil => (gArg \in DOMAIN oldGroups /\ oldGroups[gArg] = {})
        /\ HadMembers =>
              /\ ~ret.err.isNil
              /\ groups = oldGroups
              /\ (sent # <<>> /\ ~reply.fail) =>
                    (reply.status # StatusNoContent /\ ret.err = extractError(reply))

\* DeleteGroup of a group that still has its member is refused by the
\* service, and the group and the member remain
C22_Witness ==
    /\ op = "DeleteGroup" /\ HadMembers
    /\ sent # <<>> /\ ~reply.fail
    /\ ~ret.err.isNil
    /\ gArg \in DOMAIN groups /\ groups[gArg] # {}

---------------------------------------------------------------------------
(* Properties of concurrent use of the retained keys *)

\* the credential doRequest attached
Attached == StringWords(ldPtr, ldLen)

\* C26: the credential a GET attaches while SetAPIKey(new) stores a read
\* key is the key retained before or the key new, no other value, and not
\* the empty string when a key was retained before.
C26_AttachedOldOrNew ==
    rPc = "done" =>
        /\ SameString(Attached, raceOld) \/ SameString(Attached, raceNew)
        /\ raceOld # "" => Attached.len # 0

---------------------------------------------------------------------------
(* Properties of the decoders *)

\* the seconds between 1970-01-01T00:00:00Z and the instant t
SecondsAfterEpoch(t) == t.day * secondsPerDay + t.sod

\* the timestamp a decoder produced and the epoch its payload carried
DecodedTime == IF cFn = "SensorStats" THEN cOut.Timestamp ELSE cOut.Created
PayloadEpoch == IF cFn = "SensorStats" THEN cIn["time_stamp"] ELSE cIn["created"]

\* C23: decoding a Group, Member or SensorStats payload whose timestamp
\* field is e yields the instant e seconds after the Unix epoch (1635575338
\* is 2021-10-30 06:28:58 UTC, day 18930 and second 23338 of the day), and
\* the decoded id, name and sensor_index are the payload's.
C23_EpochDecodesToInstant ==
    cFn \in {"Group", "Member", "SensorStats"} =>
        /\ DecodedTime.sod \in 0..(secondsPerDay - 1)
        /\ SecondsAfterEpoch(DecodedTime) = PayloadEpoch
        /\ PayloadEpoch = 1635575338 =>
               DecodedTime.day = 18930 /\ DecodedTime.sod = 23338
        /\ cFn \in {"Group", "Member"} => cOut.ID = cIn["id"]
        /\ cFn = "Group" => cOut.Name = cIn["name"]
        /\ cFn = "Member" => cOut.Index = cIn["sensor_index"]

C23_Witness ==
    /\ cFn = "Member"
    /\ cIn["created"] = 1635575338
    /\ cIn["sensor_index"] = 77
    /\ cOut.Index = 77
    /\ cOut.Created = [day |-> 18930, sod |-> 23338]

\* the payload p with the numeric field f present and 0
WithZero(p, f) == [k \in DOMAIN p \cup {f} |-> IF k = f THEN 0 ELSE p[k]]

\* C24: decoding a SensorInfo payload without the field f and decoding the
\* same payload with f = 0 give different results.
C24_AbsentDiffersFromZero ==
    cFn = "SensorInfo" =>
        \A f \in {"sensor_index", "altitude", "rssi"} \ DOMAIN cIn :
            cOut # UnmarshalSensorInfo(WithZero(cIn, f))

---------------------------------------------------------------------------
(* Properties of the AddParam helpers *)

\* the strings s[1], ..., s[n] with a comma between neighbours
RECURSIVE CommaJoined(_)
CommaJoined(s) ==
    IF s = <<>> THEN ""
    ELSE IF Len(s) = 1 THEN s[1]
    ELSE s[1] \o ("," \o CommaJoined(Tail(s)))

Decimals(s) == [j \in 1..Len(s) |-> ToString(s[j])]

\* the key a helper writes and the string the claim expects under it
HelperKey == IF cFn = "ParamShowOnly" THEN paramShowOnly ELSE paramFields
HelperString ==
    IF cFn = "ParamShowOnly" THEN CommaJoined(Decimals(cIn.value))
    ELSE CommaJoined(cIn.value)

\* C28: ParamShowOnly.AddParam stores under "show_only" the decimal
\* renderings of the indices joined by commas in the given order,
\* ParamFields.AddParam stores under "fields" the names joined by commas,
\* and each leaves every other key of the parameter set unchanged.
C28_AddParamJoinsAndKeepsOthers ==
    cFn \in {"ParamShowOnly", "ParamFields"} =>
        /\ DOMAIN cOut = DOMAIN cIn.sp \cup {HelperKey}
        /\ cOut[HelperKey] = GoString(HelperString)
        /\ \A k \in DOMAIN cIn.sp \ {HelperKey} : cOut[k] = cIn.sp[k]

C28_Witness ==
    /\ cFn = "ParamShowOnly"
    /\ cIn.value = <<105, 7>>
    /\ DOMAIN cIn.sp = {paramFields, paramLocation}
    /\ cOut[paramShowOnly] = GoString("105,7")
    /\ cOut[paramFields] = GoString("old")

====
